---- MODULE Spec2Model ----
(***************************************************************************)
(* cc-relay: the request pipeline of internal/proxy (route dispatcher,     *)
(* RequestID, Logging and Auth middleware, terminal handler) as a state    *)
(* machine.  A request is a record held in a slot (one goroutine of the    *)
(* HTTP server); every step of its way through the handler that            *)
(* SetupRoutes builds is one action.                                       *)
(*                                                                         *)
(* Strings are sequences of small integers: keys are bit strings (so that  *)
(* a single-bit mutation of a key is a key), identifiers are sequences of  *)
(* characters (so that shortID[:8] is a real prefix).                      *)
(***************************************************************************)
EXTENDS Integers, Sequences, FiniteSets, TLC

(***************************************************************************)
(* Bounds of the model.                                                    *)
(***************************************************************************)
NumSlots == 2
\* requests served in one run
MaxRequests == 3
\* length of the longest API key, in bits
MaxKeyLen == 2
\* length of the longest client-supplied X-Request-ID (longer than ShortIDLen)
MaxIDLen == 9
\* length of a generated identifier (longer than ShortIDLen, as a UUID is)
GenIDLen == 10

(***************************************************************************)
(* Program constants.                                                      *)
(***************************************************************************)
\* middleware.go:131  if len(shortID) > 8 { shortID = shortID[:8] }
ShortIDLen == 8
\* middleware.go:126  statusCode: http.StatusOK
StatusOK == 200
\* middleware.go:27  http.StatusUnauthorized
StatusUnauthorized == 401
\* routes tests: http.StatusNotFound, http.StatusMethodNotAllowed
StatusNotFound == 404
StatusMethodNotAllowed == 405

Slots == 1..NumSlots

Min(a, b) == IF a < b THEN a ELSE b

(***************************************************************************)
(* Keys.  KeyA and KeyB are the secrets a deployment may configure;        *)
(* FlipBit(k, i) is k with bit i inverted.                                 *)
(***************************************************************************)
FlipBit(k, i) == [k EXCEPT ![i] = 1 - k[i]]

KeyA == [i \in 1..MaxKeyLen |-> i % 2]
KeyB == <<1>>
\* cfg.Server.APIKey: empty (no auth configured) or a secret
CfgKeys == {<<>>, KeyA, KeyB}
\* the values a client may send: each secret, every single-bit mutation of it
SentKeys == {KeyA, KeyB} \cup {FlipBit(k, i) : k \in {KeyA}, i \in 1..MaxKeyLen}
                         \cup {FlipBit(KeyB, 1)}
\* the x-api-key header of a request: the list of its values (none: absent)
KeyHeaders == {<<>>, << <<>> >>} \cup {<<k>> : k \in SentKeys}
                 \cup {<<FlipBit(KeyA, 1), KeyA>>, <<KeyA, FlipBit(KeyA, 1)>>}

(***************************************************************************)
(* Identifiers.                                                            *)
(***************************************************************************)
Ramp(n) == [i \in 1..n |-> 1 + (i % 2)]
\* the X-Request-ID header of a request: the list of its values
IDHeaders == {<<>>, <<Ramp(3)>>, <<Ramp(ShortIDLen)>>, <<Ramp(MaxIDLen)>>,
              << <<>>, Ramp(3) >>, << Ramp(MaxIDLen), Ramp(3) >>}

\* http.Header.Get: the first value of the header, "" when it has none
Get(h) == IF Len(h) = 0 THEN <<>> ELSE h[1]

(***************************************************************************)
(* Paths are sequences of segments: "/v1/messages" is <<"v1","messages">>, *)
(* an empty segment is a repeated slash, ".." a dot-dot segment.           *)
(***************************************************************************)
MessagesPath == <<"v1", "messages">>
HealthPath == <<"health">>
Paths == {MessagesPath, HealthPath, <<"v1", "messages", "extra">>, <<"unknown">>,
          <<"health", "">>, <<"v1", "", "messages">>, <<"unknown", "..", "health">>}
Methods == {"GET", "POST", "HEAD"}

VARIABLES
    \* cfg.Server.APIKey
    apiKey,
    \* the handler registered for POST /v1/messages: the decorators a request
    \* passes, outermost first, ending with the terminal handler
    messagesHandler,
    \* AuthMiddleware's pre-hashed expected key
    expectedHash,
    \* the requests in flight, by slot
    req,
    \* requests accepted so far
    served,
    \* the identifiers generated so far, in order
    issued,
    \* a call of IsStreamingRequest: its argument and its result
    sse,
    \* a provider, the header collections handed to it and the results of the
    \* calls made on it
    prov,
    \* a run of runServe
    srv,
    \* the configuration MultiAuthMiddleware was built from and the chain of
    \* authenticators it built
    multi

\* the state of the request pipeline
pipeVars == <<apiKey, messagesHandler, expectedHash, req, served, issued>>
\* the state outside the request pipeline
aux == <<sse, prov, srv, multi>>

vars == <<apiKey, messagesHandler, expectedHash, req, served, issued, sse, prov, srv, multi>>

(***************************************************************************)
(* crypto/sha256 and crypto/subtle.  Sum256 yields a digest of one fixed   *)
(* length (DigestLen, for SHA-256's 32 bytes) whatever the key's length:   *)
(* the key, a 1 bit, zero padding.  It is injective on the keys of the     *)
(* model, which idealises SHA-256's collision resistance.                  *)
(***************************************************************************)
DigestLen == MaxKeyLen + 1

\* a digest without the length marker: keys that differ in trailing zeros collide
Sum256NoLength(k) == [i \in 1..DigestLen |-> IF i <= Len(k) THEN k[i] ELSE 0]

Sum256(k) ==
    [i \in 1..DigestLen |-> IF i <= Len(k) THEN k[i] ELSE IF i = Len(k) + 1 THEN 1 ELSE 0]

\* a comparison of the first byte of the digests only
ConstantTimeCompareFirstByte(x, y) == IF x # <<>> /\ y # <<>> /\ x[1] = y[1] THEN 1 ELSE 0

\* subtle.ConstantTimeCompare: 1 when x and y have equal length and contents, else 0
ConstantTimeCompare(x, y) ==
    IF Len(x) # Len(y) THEN 0
    ELSE IF \A i \in 1..Len(x) : x[i] = y[i] THEN 1 ELSE 0

(***************************************************************************)
(* SetupRoutes: the decorators wrapped around the terminal handler, listed *)
(* outermost first.  The repository holds two bodies of SetupRoutes; a     *)
(* deployment is built from one of them.                                   *)
(***************************************************************************)
\* Auth inserted whether or not a key is configured
SetupRoutesAlwaysAuth(key) == <<"RequestID", "Logging", "Auth", "Handler">>

\* RequestID, Logging, Auth when a key is configured, then the handler
SetupRoutes(key) ==
    <<"RequestID", "Logging">> \o (IF key # <<>> THEN <<"Auth">> ELSE <<>>) \o <<"Handler">>

\* internal/proxy/routes.go: Auth when a key is configured, then the handler
SetupRoutesAuthOnly(key) ==
    (IF key # <<>> THEN <<"Auth">> ELSE <<>>) \o <<"Handler">>

\* the health probe registered with the decorated messages handler
RoutesHealthDecorated ==
    { [method |-> "POST", path |-> MessagesPath, handler |-> "messages"],
      [method |-> "GET", path |-> HealthPath, handler |-> "messages"] }

\* mux.Handle / mux.HandleFunc: the registered patterns
Routes ==
    { [method |-> "POST", path |-> MessagesPath, handler |-> "messages"],
      [method |-> "GET", path |-> HealthPath, handler |-> "health"] }

(***************************************************************************)
(* net/http.ServeMux.                                                      *)
(***************************************************************************)
RECURSIVE CleanSegments(_, _)
CleanSegments(p, acc) ==
    IF p = <<>> THEN acc
    ELSE LET h == Head(p) IN
         IF h = "" \/ h = "." THEN CleanSegments(Tail(p), acc)
         ELSE IF h = ".."
              THEN CleanSegments(Tail(p),
                       IF acc = <<>> THEN acc ELSE SubSeq(acc, 1, Len(acc) - 1))
              ELSE CleanSegments(Tail(p), Append(acc, h))

\* cleanPath: path.Clean, keeping a trailing slash
CleanPath(p) ==
    LET np == CleanSegments(p, <<>>)
    IN  IF p # <<>> /\ p[Len(p)] = "" /\ np # <<>> THEN Append(np, "") ELSE np

\* a pattern's method matches the request's; a GET pattern also matches HEAD
MethodMatches(patMethod, m) == m = patMethod \/ (patMethod = "GET" /\ m = "HEAD")

\* a mux that answers 404 whenever no pattern matches, whatever the path
FindHandlerNoMethodNotAllowed(m, p) ==
    IF CleanPath(p) # p THEN "redirect"
    ELSE IF \E rt \in Routes : rt.path = p /\ MethodMatches(rt.method, m)
         THEN (CHOOSE rt \in Routes : rt.path = p /\ MethodMatches(rt.method, m)).handler
         ELSE "404"

\* ServeMux.findHandler: what the mux does with a request
\*   "redirect" (301 to the clean path), the name of the matched handler,
\*   "405" (the path is registered, for another method), or "404"
FindHandler(m, p) ==
    IF CleanPath(p) # p THEN "redirect"
    ELSE IF \E rt \in Routes : rt.path = p /\ MethodMatches(rt.method, m)
         THEN (CHOOSE rt \in Routes : rt.path = p /\ MethodMatches(rt.method, m)).handler
         ELSE IF \E rt \in Routes : rt.path = p THEN "405" ELSE "404"

(***************************************************************************)
(* A request and its response.                                             *)
(***************************************************************************)
\* what the terminal handler does with the status line: the codes it passes to
\* WriteHeader, in order (none: it only writes the body, an implicit 200)
HandlerWrites ==
    {<<>>, <<200>>, <<399>>, <<400>>, <<401>>, <<499>>, <<500>>, <<503>>,
     <<200, 500>>, <<503, 200>>}

IdleReq ==
    [ pc |-> "idle", method |-> "", path |-> <<>>, hdrKey |-> <<>>, hdrID |-> <<>>,
      \* position in messagesHandler of the decorator to run next
      pos |-> 0,
      \* the request's context: the identifier and whether a logger is attached
      ctxID |-> <<>>, ctxLogger |-> FALSE,
      \* the X-Request-ID response header: the list of its values
      respID |-> <<>>,
      \* Logging's responseWriter wraps the writer; the status it captured
      wrapped |-> FALSE, captured |-> 0,
      \* the status line sent to the client (0: not sent yet), the body, the
      \* error kind and message of a structured error body
      status |-> 0, body |-> "", errKind |-> "", errMsg |-> "",
      \* who wrote the response
      by |-> "",
      \* calls of the terminal handler, and the request it was called with
      handlerCalls |-> 0, handlerSaw |-> <<>>,
      \* the request AuthMiddleware was called with
      authSaw |-> <<>>,
      \* the Authorization header: the list of its values
      hdrAuth |-> <<>>,
      \* the authenticators MultiAuthMiddleware's chain consulted, in order, and
      \* the type of the result it returned
      attempts |-> <<>>, authType |-> "",
      \* the log records emitted for the request, in order
      log |-> <<>>,
      \* the steps of the pipeline taken, in order
      trace |-> <<>> ]

\* the request as a handler sees it: its headers and its context
View(r) == [hdrKey |-> r.hdrKey, hdrID |-> r.hdrID, ctxID |-> r.ctxID]

\* http.ResponseWriter.WriteHeader on the connection's writer: the first call
\* sends the status line, a later call is ignored
ConnWriteHeader(r, code) == IF r.status = 0 THEN [r EXCEPT !.status = code] ELSE r

\* responseWriter.WriteHeader when Logging wrapped the writer, else the
\* connection's own
WriteHeader(r, code) ==
    IF r.wrapped THEN ConnWriteHeader([r EXCEPT !.captured = code], code)
    ELSE ConnWriteHeader(r, code)

\* zerolog.Ctx(r.Context()).<level>().Msg(...): a record through the context's
\* logger, which adds the request identifier; without a logger in the context
\* the record is dropped
Emit(r, rec) ==
    IF r.ctxLogger
    THEN [r EXCEPT !.log = Append(@, [by |-> rec.by, level |-> rec.level, msg |-> rec.msg,
                                      req_id |-> rec.req_id, status |-> rec.status,
                                      request_id |-> r.ctxID])]
    ELSE r

\* WriteError(w, status, kind, message): the structured error response
WriteError(r, code, kind, msg) ==
    LET r1 == WriteHeader(r, code)
    IN  [r1 EXCEPT !.body = "error", !.errKind = kind, !.errMsg = msg, !.by = "Auth"]

\* an identifier that is the same for every request
GenIDShared(n) == [i \in 1..GenIDLen |-> IF i = 1 THEN 100 ELSE 0]

\* the identifier a fresh uuid yields: one never issued before
GenID(n) == [i \in 1..GenIDLen |-> IF i = 1 THEN 100 + n ELSE 0]

\* after the innermost step returned: Logging's exit when Logging was entered,
\* else the response is complete
Return(r) == [r EXCEPT !.pc = IF r.wrapped THEN "logexit" ELSE "done"]

(***************************************************************************)
(* Construction: the configuration, SetupRoutes, AuthMiddleware's closure. *)
(***************************************************************************)
Init ==
    /\ apiKey \in CfgKeys
    /\ messagesHandler \in {SetupRoutes(apiKey), SetupRoutesAuthOnly(apiKey)}
    /\ expectedHash = IF apiKey # <<>> THEN Sum256(apiKey) ELSE <<>>
    /\ req = [s \in Slots |-> IdleReq]
    /\ served = 0
    /\ issued = <<>>
    /\ sse = "none" /\ prov = "none" /\ srv = "none" /\ multi = "none"

(***************************************************************************)
(* A client sends a request: any method, path, x-api-key and X-Request-ID  *)
(* of the model.  Under Spec a request arrives when none is in flight, so  *)
(* that the whole input space is explored request by request; the          *)
(* identifiers issued to earlier requests are kept in issued.              *)
(***************************************************************************)
Arrive(s) ==
    /\ \A t \in Slots : req[t].pc = "idle"
    /\ served < MaxRequests
    /\ \E m \in Methods, p \in Paths, k \in KeyHeaders, id \in IDHeaders :
          req' = [req EXCEPT ![s] = [IdleReq EXCEPT !.pc = "mux", !.method = m,
                                         !.path = p, !.hdrKey = k, !.hdrID = id]]
    /\ served' = served + 1
    /\ UNCHANGED <<aux, apiKey, messagesHandler, expectedHash, issued>>

(***************************************************************************)
(* mux.ServeHTTP: routing.                                                 *)
(***************************************************************************)
Dispatch(s) ==
    LET r == req[s]
        h == FindHandler(r.method, r.path)
    IN  /\ r.pc = "mux"
        /\ req' = [req EXCEPT ![s] =
              CASE h = "messages" -> [r EXCEPT !.pc = "chain", !.pos = 1]
                [] h = "health" -> [r EXCEPT !.pc = "health"]
                [] h = "redirect" ->
                     [ConnWriteHeader(r, 301) EXCEPT !.pc = "done", !.by = "mux"]
                [] h = "405" ->
                     [ConnWriteHeader(r, StatusMethodNotAllowed) EXCEPT
                         !.pc = "done", !.by = "mux"]
                [] OTHER ->
                     [ConnWriteHeader(r, StatusNotFound) EXCEPT
                         !.pc = "done", !.by = "mux"]]
        /\ UNCHANGED <<aux, apiKey, messagesHandler, expectedHash, served, issued>>

\* the GET /health handler: WriteHeader(200), Write({"status":"ok"})
HealthHandler(s) ==
    LET r == req[s]
    IN  /\ r.pc = "health"
        /\ req' = [req EXCEPT ![s] =
              [ConnWriteHeader(r, StatusOK) EXCEPT
                  !.pc = "done", !.body = "{\"status\":\"ok\"}", !.by = "health",
                  !.trace = Append(@, "Health")]]
        /\ UNCHANGED <<aux, apiKey, messagesHandler, expectedHash, served, issued>>

(***************************************************************************)
(* RequestIDMiddleware.                                                    *)
(***************************************************************************)
\* AddRequestID(ctx, requestID): the identifier the context then holds, a fresh
\* one when the request brought none (n identifiers were issued before)
AddRequestID(requestID, n) == IF requestID = <<>> THEN GenID(n + 1) ELSE requestID

\* GetRequestID(ctx)
GetRequestID(r) == r.ctxID

\* the request's own identifier, without the fallback to the context's
HeaderRequestIDNoFallback(requestID, fromCtx) == requestID

\* the value written to the X-Request-ID response header: the request's own
\* identifier, or the context's when the request brought none
HeaderRequestID(requestID, fromCtx) == IF requestID = <<>> THEN fromCtx ELSE requestID

\* w.Header().Set: one value, replacing what the header held
HeaderSet(old, v) == <<v>>

RequestIDMiddleware(s) ==
    LET r == req[s]
        requestID == Get(r.hdrID)
        ctx == AddRequestID(requestID, Len(issued))
        r1 == [r EXCEPT !.ctxID = ctx, !.ctxLogger = TRUE]
    IN  /\ r.pc = "chain" /\ messagesHandler[r.pos] = "RequestID"
        /\ req' = [req EXCEPT ![s] =
              [r1 EXCEPT !.respID = HeaderSet(@, HeaderRequestID(requestID, GetRequestID(r1))),
                         !.trace = Append(@, "RequestID"),
                         !.pos = @ + 1]]
        /\ issued' = IF requestID = <<>> THEN Append(issued, ctx) ELSE issued
        /\ UNCHANGED <<aux, apiKey, messagesHandler, expectedHash, served>>

(***************************************************************************)
(* LoggingMiddleware: entry (wrap the writer, the start record) and exit   *)
(* (the completion record).                                                *)
(***************************************************************************)
\* the identifier, never cut
ShortIDUncut(requestID) == requestID

\* shortID: the identifier cut to its first 8 characters
ShortID(requestID) ==
    IF Len(requestID) > ShortIDLen THEN SubSeq(requestID, 1, ShortIDLen) ELSE requestID

\* the thresholds taken exclusive
LogLevelExclusive(statusCode) ==
    IF statusCode > 500 THEN "error"
    ELSE IF statusCode > 400 THEN "warn"
    ELSE "info"

\* the level of the completion record
LogLevel(statusCode) ==
    IF statusCode >= 500 THEN "error"
    ELSE IF statusCode >= 400 THEN "warn"
    ELSE "info"

LoggingMiddlewareEnter(s) ==
    LET r == req[s]
        r1 == [r EXCEPT !.wrapped = TRUE, !.captured = StatusOK]
        shortID == ShortID(GetRequestID(r))
    IN  /\ r.pc = "chain" /\ messagesHandler[r.pos] = "Logging"
        /\ req' = [req EXCEPT ![s] =
              [Emit(r1, [by |-> "Logging", level |-> "info", msg |-> "start",
                         req_id |-> shortID, status |-> 0])
                 EXCEPT !.trace = Append(@, "Logging"), !.pos = @ + 1]]
        /\ UNCHANGED <<aux, apiKey, messagesHandler, expectedHash, served, issued>>

LoggingMiddlewareExit(s) ==
    LET r == req[s]
        shortID == ShortID(GetRequestID(r))
    IN  /\ r.pc = "logexit"
        /\ req' = [req EXCEPT ![s] =
              [Emit(r, [by |-> "Logging", level |-> LogLevel(r.captured),
                        msg |-> "completion", req_id |-> shortID,
                        status |-> r.captured])
                 EXCEPT !.pc = "done"]]
        /\ UNCHANGED <<aux, apiKey, messagesHandler, expectedHash, served, issued>>

(***************************************************************************)
(* AuthMiddleware.                                                         *)
(***************************************************************************)
\* the decision on the provided key: "missing", "invalid" or "ok"
AuthCheck(providedKey, expected) ==
    IF providedKey = <<>> THEN "missing"
    ELSE IF ConstantTimeCompare(Sum256(providedKey), expected) # 1 THEN "invalid"
    ELSE "ok"

AuthMiddleware(s) ==
    LET r == [req[s] EXCEPT !.authSaw = <<View(req[s])>>, !.trace = Append(@, "Auth")]
        providedKey == Get(r.hdrKey)
        decision == AuthCheck(providedKey, expectedHash)
        rec(level, msg) == [by |-> "Auth", level |-> level, msg |-> msg,
                            req_id |-> <<>>, status |-> 0]
    IN  /\ r.pc = "chain" /\ messagesHandler[r.pos] = "Auth"
        /\ req' = [req EXCEPT ![s] =
              CASE decision = "missing" ->
                     Return(WriteError(
                         Emit(r, rec("warn", "authentication failed: missing x-api-key header")),
                         StatusUnauthorized, "authentication_error",
                         "missing x-api-key header"))
                [] decision = "invalid" ->
                     Return(WriteError(
                         Emit(r, rec("warn", "authentication failed: invalid x-api-key")),
                         StatusUnauthorized, "authentication_error", "invalid x-api-key"))
                [] OTHER ->
                     [Emit(r, rec("debug", "authentication succeeded"))
                        EXCEPT !.pos = @ + 1]]
        /\ UNCHANGED <<aux, apiKey, messagesHandler, expectedHash, served, issued>>

(***************************************************************************)
(* The terminal handler (NewHandler): relays the request to the backend    *)
(* and the backend's response to the client.                               *)
(***************************************************************************)
RECURSIVE WriteHeaders(_, _)
WriteHeaders(r, codes) ==
    IF codes = <<>> THEN r ELSE WriteHeaders(WriteHeader(r, Head(codes)), Tail(codes))

Handler(s) ==
    LET r == req[s]
    IN  /\ r.pc = "chain" /\ messagesHandler[r.pos] = "Handler"
        /\ \E codes \in HandlerWrites :
              LET r1 == WriteHeaders(r, codes)
                  \* Write: the body, and an implicit 200 when no status was sent
                  r2 == ConnWriteHeader(r1, StatusOK)
              IN  req' = [req EXCEPT ![s] =
                    Return([r2 EXCEPT !.body = "upstream", !.by = "Handler",
                                      !.handlerCalls = @ + 1,
                                      !.handlerSaw = <<View(r)>>,
                                      !.trace = Append(@, "Handler")])]
        /\ UNCHANGED <<aux, apiKey, messagesHandler, expectedHash, served, issued>>

\* the response is complete; the goroutine serves the next request
Recycle(s) ==
    /\ req[s].pc = "done"
    /\ req' = [req EXCEPT ![s] = IdleReq]
    /\ UNCHANGED <<aux, apiKey, messagesHandler, expectedHash, served, issued>>

Next ==
    \E s \in Slots :
        \/ Arrive(s)
        \/ Dispatch(s)
        \/ HealthHandler(s)
        \/ RequestIDMiddleware(s)
        \/ LoggingMiddlewareEnter(s)
        \/ AuthMiddleware(s)
        \/ Handler(s)
        \/ LoggingMiddlewareExit(s)
        \/ Recycle(s)

Spec == Init /\ [][Next]_vars

(***************************************************************************)
(* Properties.                                                             *)
(***************************************************************************)
\* the request in slot s was routed to the POST /v1/messages handler
OnMessages(r) == r.pc # "idle" /\ r.method = "POST" /\ r.path = MessagesPath
\* AuthMiddleware has run on the request
AuthRan(r) == r.authSaw # <<>>
\* AuthMiddleware answered the request itself
RejectedByAuth(r) ==
    /\ r.status = StatusUnauthorized
    /\ r.by = "Auth"
    /\ r.errKind = "authentication_error"
    /\ r.body = "error"

\* C1: with a non-empty expected key, a request whose x-api-key value is absent,
\* empty or different from the expected key is answered 401 with kind
\* authentication_error, and the wrapped handler is never invoked for it.
C1_RejectsBadKey ==
    \A s \in Slots :
        LET r == req[s] IN
        (apiKey # <<>> /\ AuthRan(r) /\ Get(r.hdrKey) # apiKey)
            => (RejectedByAuth(r) /\ r.handlerCalls = 0 /\ r.handlerSaw = <<>>)

C1_Witness ==
    \E s \in Slots :
        LET r == req[s] IN
        /\ r.pc = "done" /\ AuthRan(r) /\ apiKey = KeyA
        /\ Get(r.hdrKey) = FlipBit(KeyA, MaxKeyLen)
        /\ r.status = StatusUnauthorized /\ r.handlerCalls = 0

\* C2: for every non-empty expected key and every provided value, AuthMiddleware
\* lets the request through (the wrapped handler runs exactly once, on the same
\* request, and Auth writes no 401) if and only if the provided value equals the
\* expected key; a value one bit away from the key is rejected.
C2_AcceptsIffEqual ==
    \A s \in Slots :
        LET r == req[s]
            accepted == /\ r.handlerCalls = 1
                        /\ r.handlerSaw = r.authSaw
                        /\ r.by = "Handler" /\ r.errKind = ""
        IN  /\ r.handlerCalls <= 1
            /\ (AuthRan(r) /\ r.pc = "done") =>
                  /\ accepted <=> (Get(r.hdrKey) = apiKey)
                  /\ \A i \in 1..Len(apiKey) :
                        Get(r.hdrKey) = FlipBit(apiKey, i) => RejectedByAuth(r)

C2_Witness ==
    \E s \in Slots :
        LET r == req[s] IN
        /\ r.pc = "done" /\ AuthRan(r) /\ apiKey = KeyB
        /\ r.hdrKey = <<KeyB>> /\ r.handlerCalls = 1 /\ r.by = "Handler"

\* C3: with no API key configured the chain holds no Auth decorator, every
\* POST /v1/messages request reaches the terminal handler whatever x-api-key it
\* carries, and no response is Auth's 401.
C3_NoAuthWithoutKey ==
    apiKey = <<>> =>
        /\ \A i \in 1..Len(messagesHandler) : messagesHandler[i] # "Auth"
        /\ \A s \in Slots :
              LET r == req[s] IN
              /\ ~AuthRan(r) /\ r.by # "Auth" /\ r.errKind = ""
              /\ \A i \in 1..Len(r.log) : r.log[i].by # "Auth"
              /\ (OnMessages(r) /\ r.pc = "done") =>
                    (r.handlerCalls = 1 /\ r.by = "Handler")

C3_Witness ==
    \E s \in Slots :
        LET r == req[s] IN
        /\ apiKey = <<>> /\ OnMessages(r) /\ r.pc = "done"
        /\ r.hdrKey = <<KeyA>> /\ r.handlerCalls = 1

\* C4: every POST /v1/messages request passes RequestID, then Logging, then Auth
\* (when a key is configured), then the terminal handler: the identifier is
\* resolved before Logging's start record, which precedes the Auth decision.
C4_FixedOrder ==
    \A s \in Slots :
        LET r == req[s] IN
        (OnMessages(r) /\ r.pc = "done") =>
            /\ Len(r.trace) >= 2
            /\ r.trace[1] = "RequestID" /\ r.trace[2] = "Logging"
            /\ (apiKey # <<>>) => (Len(r.trace) >= 3 /\ r.trace[3] = "Auth")
            /\ (r.handlerCalls > 0) => r.trace[Len(r.trace)] = "Handler"
            /\ Len(r.log) >= 1 /\ r.log[1].by = "Logging" /\ r.log[1].msg = "start"
            /\ r.log[1].request_id # <<>>

\* the order holds of the handler that the RequestID-Logging-Auth body of
\* SetupRoutes builds
C4_FixedOrderWhenChained ==
    messagesHandler = SetupRoutes(apiKey) => C4_FixedOrder

\* C5: GET /health is answered 200 with body {"status":"ok"} under every
\* configuration and with every x-api-key, and never passes through Auth.
C5_HealthOpen ==
    \A s \in Slots :
        LET r == req[s] IN
        (r.method = "GET" /\ r.path = HealthPath) =>
            /\ ~AuthRan(r) /\ r.by # "Auth"
            /\ \A i \in 1..Len(r.trace) : r.trace[i] = "Health"
            /\ r.pc = "done" =>
                  (r.status = StatusOK /\ r.body = "{\"status\":\"ok\"}" /\ r.by = "health")

C5_Witness ==
    \E s \in Slots :
        LET r == req[s] IN
        /\ r.method = "GET" /\ r.path = HealthPath /\ r.pc = "done"
        /\ apiKey = KeyA /\ r.hdrKey = <<FlipBit(KeyA, 1)>> /\ r.status = StatusOK

\* a path of the two routes
Registered(p) == p = MessagesPath \/ p = HealthPath
\* a path in canonical form: no repeated slash, no "." or ".." segment
Canonical(p) ==
    \A i \in 1..Len(p) : p[i] # "." /\ p[i] # ".." /\ (p[i] = "" => i = Len(p))

\* C6 as stated: any path other than the two registered ones is answered 404
\* for every method, and a registered path with another method than the
\* registered one is answered 405.
C6_ExactMatch ==
    \A s \in Slots :
        LET r == req[s] IN
        r.pc = "done" =>
            /\ ~Registered(r.path) => r.status = StatusNotFound
            /\ (r.path = MessagesPath /\ r.method # "POST") =>
                  r.status = StatusMethodNotAllowed
            /\ (r.path = HealthPath /\ r.method # "GET") =>
                  r.status = StatusMethodNotAllowed

\* C6 (amended): for a path in canonical form, a path other than the two
\* registered ones is answered 404 for every method, /v1/messages with a method
\* other than POST is answered 405, /health with a method other than GET and
\* HEAD is answered 405, and HEAD /health is served by the health handler; a
\* path not in canonical form is answered 301 before any route is matched.
C6_ExactMatchCanonical ==
    \A s \in Slots :
        LET r == req[s] IN
        r.pc = "done" =>
            /\ (Canonical(r.path) /\ ~Registered(r.path)) =>
                  (r.status = StatusNotFound /\ r.by = "mux")
            /\ (r.path = MessagesPath /\ r.method # "POST") =>
                  (r.status = StatusMethodNotAllowed /\ r.by = "mux")
            /\ (r.path = HealthPath /\ r.method \notin {"GET", "HEAD"}) =>
                  (r.status = StatusMethodNotAllowed /\ r.by = "mux")
            /\ (r.path = HealthPath /\ r.method = "HEAD") =>
                  (r.status = StatusOK /\ r.by = "health")
            /\ ~Canonical(r.path) => (r.status = 301 /\ r.by = "mux")
            /\ r.by = "mux" => (r.handlerCalls = 0 /\ r.trace = <<>>)

C6_Witness ==
    \E s \in Slots :
        /\ req[s].pc = "done" /\ req[s].status = StatusMethodNotAllowed
        /\ req[s].path = HealthPath /\ req[s].method = "POST"

\* C7: every response carries the resolved request identifier in its
\* X-Request-ID header: exactly one, non-empty value.
C7_EveryResponseHasID ==
    \A s \in Slots :
        LET r == req[s] IN
        r.pc = "done" => (Len(r.respID) = 1 /\ r.respID[1] # <<>>)

\* the identifier is there on the responses that passed RequestIDMiddleware
C7_ResponsesOfRequestIDHaveID ==
    \A s \in Slots :
        LET r == req[s] IN
        (r.pc = "done" /\ r.ctxLogger) => (Len(r.respID) = 1 /\ r.respID[1] # <<>>)

\* no value occurs twice in the sequence
NoRepeats(q) == \A i, j \in 1..Len(q) : i # j => q[i] # q[j]

\* C8: after RequestIDMiddleware a request that carried a non-empty X-Request-ID
\* has exactly that value, once, in the response header; one that carried none
\* has a freshly generated non-empty value, different from every value generated
\* for another request; the header's value is the identifier in the context
\* that the wrapped handler sees.
C8_RequestID ==
    /\ NoRepeats(issued)
    /\ \A s \in Slots :
          LET r == req[s] IN
          r.ctxLogger =>
              /\ Len(r.respID) = 1
              /\ r.respID[1] # <<>>
              /\ r.respID[1] = r.ctxID
              /\ Get(r.hdrID) # <<>> => r.respID[1] = Get(r.hdrID)
              /\ Get(r.hdrID) = <<>> =>
                    (issued # <<>> /\ r.respID[1] = issued[Len(issued)])
              /\ r.handlerCalls > 0 => r.handlerSaw[1].ctxID = r.respID[1]

C8_Witness ==
    \E s \in Slots :
        LET r == req[s] IN
        /\ r.pc = "done" /\ r.handlerCalls = 1 /\ r.hdrID = <<>>
        /\ Len(issued) >= 2 /\ r.respID = <<issued[Len(issued)]>>

\* the completion records of a request
Completions(r) == {i \in 1..Len(r.log) : r.log[i].by = "Logging" /\ r.log[i].msg = "completion"}

\* C9: the completion record is at error level for a status of 500 and above,
\* at warning level for 400 to 499 and at informational level otherwise, and
\* a request has exactly one completion record.
C9_LevelByStatus ==
    \A s \in Slots :
        LET r == req[s] IN
        /\ \A i \in Completions(r) :
              LET c == r.log[i] IN
              /\ c.status = r.captured
              /\ c.level \in {"error", "warn", "info"}
              /\ c.level = "error" <=> c.status >= 500
              /\ c.level = "warn" <=> (c.status >= 400 /\ c.status <= 499)
              /\ c.level = "info" <=> c.status < 400
        /\ (r.wrapped /\ r.pc = "done") => Cardinality(Completions(r)) = 1
        /\ Cardinality(Completions(r)) <= 1

C9_Witness ==
    \E s \in Slots :
        LET r == req[s] IN
        /\ r.pc = "done" /\ r.status = 503
        /\ \E i \in Completions(r) : r.log[i].level = "error" /\ r.log[i].status = 503

\* the records LoggingMiddleware emitted
LoggingRecords(r) == {i \in 1..Len(r.log) : r.log[i].by = "Logging"}

\* C10 as stated: the identifier in Logging's start and completion records is
\* the identifier in the X-Request-ID response header, whatever its length.
C10_LoggedIDIsHeaderID ==
    \A s \in Slots :
        LET r == req[s] IN
        \A i \in LoggingRecords(r) : <<r.log[i].req_id>> = r.respID

\* C10 (amended): the req_id in Logging's start and completion records is the
\* first 8 characters of the identifier in the X-Request-ID response header,
\* and so the identifier itself exactly when it has at most 8 characters.
C10_LoggedIDIsHeaderIDPrefix ==
    \A s \in Slots :
        LET r == req[s] IN
        \A i \in LoggingRecords(r) :
            /\ Len(r.respID) = 1
            /\ r.log[i].req_id = SubSeq(r.respID[1], 1, Min(8, Len(r.respID[1])))
            /\ (r.log[i].req_id = r.respID[1]) <=> (Len(r.respID[1]) <= 8)

C10_Witness ==
    \E s \in Slots :
        LET r == req[s] IN
        /\ r.pc = "done" /\ r.hdrID = <<Ramp(MaxIDLen)>>
        /\ Cardinality(LoggingRecords(r)) = 2
        /\ \A i \in LoggingRecords(r) : Len(r.log[i].req_id) = 8

\* ---------------------------------------------------------------------------
\* Streaming detection (IsStreamingRequest)
\* ---------------------------------------------------------------------------

\* A request body is a sequence of JSON tokens (white space carries no
\* meaning and is left out).  "stream" and "str" are two string literals, the
\* first spelling the field name stream, the second any other text (such as the
\* text true in quotes); "?" is a byte that starts no JSON token.
JSONStrings == {"stream", "str"}
JSONScalars == JSONStrings \cup {"true", "false", "null", "1"}
JSONAlphabet == {"{", "}", ":", ",", "stream", "str", "true", "false"}

\* the longest body enumerated exhaustively over JSONAlphabet
MaxBodyLen == 5

\* bodies beyond MaxBodyLen or outside JSONAlphabet: nesting, arrays, null,
\* numbers, repeated members, trailing and leading garbage
JSONSamples ==
    { <<"null">>, <<"1">>, <<"[", "]">>, <<"[", "true", "]">>, <<"?">>,
      <<"[", "{", "stream", ":", "true", "}", "]">>,
      <<"{", "stream", ":", "null", "}">>,
      <<"{", "stream", ":", "1", "}">>,
      <<"{", "stream", ":", "[", "true", "]", "}">>,
      <<"{", "stream", ":", "{", "stream", ":", "true", "}", "}">>,
      <<"{", "str", ":", "{", "stream", ":", "true", "}", "}">>,
      <<"{", "str", ":", "1", ",", "stream", ":", "true", "}">>,
      <<"{", "stream", ":", "true", ",", "str", ":", "false", "}">>,
      <<"{", "stream", ":", "true", ",", "stream", ":", "false", "}">>,
      <<"{", "stream", ":", "false", ",", "stream", ":", "true", "}">>,
      <<"{", "stream", ":", "true", ",", "stream", ":", "str", "}">>,
      <<"{", "stream", ":", "true", "}", "?">>,
      <<"{", "stream", ":", "true", "}", "{", "}">>,
      <<"{", "stream", ":", "true", ",", "}">>,
      <<"{", "stream", ":", "true">>,
      <<"?", "{", "stream", ":", "true", "}">> }

Bodies == UNION { [1..n -> JSONAlphabet] : n \in 0..MaxBodyLen } \cup JSONSamples

JSONFail == [ok |-> FALSE, rest |-> <<>>, kind |-> "none", stream |-> "absent"]

JSONKind(tok) == IF tok \in JSONStrings THEN "string" ELSE IF tok = "1" THEN "number" ELSE tok

RECURSIVE ParseValue(_)
RECURSIVE ParseMembers(_, _)
RECURSIVE ParseElements(_)

\* decodes one JSON value at the head of t: whether one is there, the tokens
\* after it, its kind and, for an object, the kind of the value its map holds
\* under the key stream (a later member of the same name replaces an earlier
\* one)
ParseValue(t) ==
    IF t = <<>> THEN JSONFail
    ELSE IF Head(t) \in JSONScalars
    THEN [ok |-> TRUE, rest |-> Tail(t), kind |-> JSONKind(Head(t)), stream |-> "absent"]
    ELSE IF Head(t) = "{"
    THEN IF Len(t) >= 2 /\ t[2] = "}"
         THEN [ok |-> TRUE, rest |-> SubSeq(t, 3, Len(t)), kind |-> "object", stream |-> "absent"]
         ELSE ParseMembers(Tail(t), "absent")
    ELSE IF Head(t) = "["
    THEN IF Len(t) >= 2 /\ t[2] = "]"
         THEN [ok |-> TRUE, rest |-> SubSeq(t, 3, Len(t)), kind |-> "array", stream |-> "absent"]
         ELSE ParseElements(Tail(t))
    ELSE JSONFail

\* the members of an object after its opening brace or after a comma
ParseMembers(t, acc) ==
    IF Len(t) < 3 \/ t[1] \notin JSONStrings \/ t[2] # ":" THEN JSONFail
    ELSE LET v == ParseValue(SubSeq(t, 3, Len(t)))
             held == IF t[1] = "stream" THEN v.kind ELSE acc
         IN IF ~v.ok \/ v.rest = <<>> THEN JSONFail
            ELSE IF Head(v.rest) = "}"
            THEN [ok |-> TRUE, rest |-> Tail(v.rest), kind |-> "object", stream |-> held]
            ELSE IF Head(v.rest) = ","
            THEN ParseMembers(Tail(v.rest), held)
            ELSE JSONFail

\* the elements of an array after its opening bracket or after a comma
ParseElements(t) ==
    LET v == ParseValue(t)
    IN IF ~v.ok \/ v.rest = <<>> THEN JSONFail
       ELSE IF Head(v.rest) = "]"
       THEN [ok |-> TRUE, rest |-> Tail(v.rest), kind |-> "array", stream |-> "absent"]
       ELSE IF Head(v.rest) = ","
       THEN ParseElements(Tail(v.rest))
       ELSE JSONFail

\* json.Unmarshal(body, &req) with req a map[string]interface{}: an error for
\* a body that is not one JSON document and for a document that is neither an
\* object nor null; null leaves the map nil
Unmarshal(body) ==
    LET v == ParseValue(body)
    IN IF ~v.ok \/ v.rest # <<>> THEN [err |-> TRUE, stream |-> "absent"]
       ELSE IF v.kind \notin {"object", "null"} THEN [err |-> TRUE, stream |-> "absent"]
       ELSE [err |-> FALSE, stream |-> v.stream]

\* IsStreamingRequest taking every JSON value that reads as true for true
IsStreamingRequestTruthy(body) ==
    LET u == Unmarshal(body)
    IN ~u.err /\ u.stream \in {"true", "string", "number"}

IsStreamingRequest(body) ==
    LET u == Unmarshal(body)
    IN IF u.err THEN FALSE
       ELSE LET ok == u.stream \in {"true", "false"}
                stream == u.stream = "true"
            IN ok /\ stream

PipelineIdle ==
    /\ apiKey = <<>>
    /\ messagesHandler = SetupRoutes(apiKey)
    /\ expectedHash = <<>>
    /\ req = [s \in Slots |-> IdleReq]
    /\ served = 0
    /\ issued = <<>>

InitStream ==
    /\ PipelineIdle
    /\ \E b \in Bodies : sse = [pc |-> "call", body |-> b, result |-> FALSE]
    /\ prov = "none" /\ srv = "none" /\ multi = "none"

CallIsStreamingRequest ==
    /\ sse.pc = "call"
    /\ sse' = [sse EXCEPT !.pc = "returned", !.result = IsStreamingRequest(sse.body)]
    /\ UNCHANGED <<pipeVars, prov, srv, multi>>

NextStream == CallIsStreamingRequest

SpecStream == InitStream /\ [][NextStream]_vars

\* the one-member object {"stream": v}
StreamObject(v) == <<"{", "stream", ":", v, "}">>

\* C11: IsStreamingRequest returns true exactly when the body is one JSON
\* document, that document is an object, and the object's top-level stream
\* field is the boolean true; it returns false when the field is missing,
\* false, of another type (the text true in quotes, a number, null, an array,
\* an object), when the document is not an object and when the body is not
\* valid JSON; every call returns a boolean and none fails.
C11_StreamIffTrue ==
    sse.pc = "returned" =>
        LET v == ParseValue(sse.body)
            isObject == v.ok /\ v.rest = <<>> /\ v.kind = "object"
        IN /\ sse.result \in BOOLEAN
           /\ sse.result <=> (isObject /\ v.stream = "true")
           /\ sse.body = StreamObject("true") => sse.result
           /\ sse.body \in { StreamObject("false"), StreamObject("str"), StreamObject("1"),
                             StreamObject("null"), <<"{", "}">>, <<"{", "str", ":", "true", "}">>,
                             <<"true">>, <<"[", "true", "]">>, <<"null">>, <<>>, <<"?">>,
                             <<"{", "stream", ":", "true">>,
                             <<"{", "str", ":", "{", "stream", ":", "true", "}", "}">> }
                => ~sse.result

\* a call that returned true and calls that returned false for a stream field
\* holding the text true and for a body that is no JSON
C11_Witness ==
    /\ sse.pc = "returned"
    /\ sse.body = <<"{", "str", ":", "1", ",", "stream", ":", "true", "}">>
    /\ sse.result

C11_WitnessString ==
    sse.pc = "returned" /\ sse.body = StreamObject("str") /\ ~sse.result

\* ---------------------------------------------------------------------------
\* Header collections (net/http.Header), SetSSEHeaders and the providers
\* ---------------------------------------------------------------------------

\* A header name is its dash-separated words, each with the letter case it is
\* written in: "anthropic-version" is HeaderName(<<"anthropic", "version">>, "lower").
HeaderName(words, c) == [i \in 1..Len(words) |-> [w |-> words[i], c |-> c]]

\* http.CanonicalHeaderKey: the first letter of every word in upper case, the
\* others in lower case
CanonicalHeaderKey(key) == [i \in 1..Len(key) |-> [w |-> key[i].w, c |-> "title"]]

ContentType == HeaderName(<<"content", "type">>, "title")
CacheControl == HeaderName(<<"cache", "control">>, "title")
XAccelBuffering == HeaderName(<<"x", "accel", "buffering">>, "title")
Connection == HeaderName(<<"connection">>, "title")
XApiKey == HeaderName(<<"x", "api", "key">>, "title")
AnthropicVersion == HeaderName(<<"anthropic", "version">>, "title")

\* the names a header collection is drawn from: spellings of one anthropic-
\* header in three letter cases, a second anthropic- header, names that hold
\* the word anthropic without starting with "anthropic-", and others
HeaderNames ==
    { AnthropicVersion,
      HeaderName(<<"anthropic", "version">>, "lower"),
      HeaderName(<<"anthropic", "version">>, "upper"),
      HeaderName(<<"anthropic", "beta">>, "title"),
      HeaderName(<<"anthropic">>, "title"),
      HeaderName(<<"x", "anthropic", "id">>, "title"),
      ContentType,
      HeaderName(<<"content", "type">>, "lower"),
      XApiKey, CacheControl, Connection, XAccelBuffering,
      HeaderName(<<"user", "agent">>, "title") }

\* the value lists of a header
HeaderValues == { <<"v1">>, <<"v2", "v1">> }

\* the most names a header collection holds
MaxHeaders == 2

\* the header collections: maps from names to value lists
HeaderMaps ==
    UNION { [D -> HeaderValues] : D \in { E \in SUBSET HeaderNames : Cardinality(E) <= MaxHeaders } }

\* the entries of h under keys in canonical form: what http.Header's own
\* methods (Get, Set, Add, Del) see of h, and all that a collection built by
\* them or by the server's request parser holds
Held(h) == [n \in { k \in DOMAIN h : CanonicalHeaderKey(k) = k } |-> h[n]]

\* http.Header.Add in place of http.Header.Set
SetAppending(h, key, value) ==
    LET k == CanonicalHeaderKey(key)
    IN [n \in DOMAIN h \cup {k} |-> IF n = k
                                     THEN (IF k \in DOMAIN h THEN Append(h[k], value) ELSE <<value>>)
                                     ELSE h[n]]

\* http.Header.Set: the canonical form of key maps to the single value
Set(h, key, value) ==
    LET k == CanonicalHeaderKey(key)
    IN [n \in DOMAIN h \cup {k} |-> IF n = k THEN <<value>> ELSE h[n]]

\* SetSSEHeaders adding its values to those already there
SetSSEHeadersAdding(h) ==
    LET h1 == SetAppending(h, HeaderName(<<"content", "type">>, "title"), "text/event-stream")
        h2 == SetAppending(h1, HeaderName(<<"cache", "control">>, "title"), "no-cache, no-transform")
        h3 == SetAppending(h2, HeaderName(<<"x", "accel", "buffering">>, "title"), "no")
    IN SetAppending(h3, HeaderName(<<"connection">>, "title"), "keep-alive")

SetSSEHeaders(h) ==
    LET h1 == Set(h, HeaderName(<<"content", "type">>, "title"), "text/event-stream")
        h2 == Set(h1, HeaderName(<<"cache", "control">>, "title"), "no-cache, no-transform")
        h3 == Set(h2, HeaderName(<<"x", "accel", "buffering">>, "title"), "no")
    IN Set(h3, HeaderName(<<"connection">>, "title"), "keep-alive")

DefaultAnthropicBaseURL == "https://api.anthropic.com"
DefaultZAIBaseURL == "https://api.z.ai/api/anthropic"

\* NewAnthropicProvider keeping an empty base URL
NewAnthropicProviderNoDefault(name, baseURL) ==
    [kind |-> "anthropic", name |-> name, baseURL |-> baseURL]

NewAnthropicProvider(name, baseURL) ==
    [kind |-> "anthropic", name |-> name,
     baseURL |-> IF baseURL = "" THEN DefaultAnthropicBaseURL ELSE baseURL]

NewZAIProvider(name, baseURL) ==
    [kind |-> "zai", name |-> name,
     baseURL |-> IF baseURL = "" THEN DefaultZAIBaseURL ELSE baseURL]

Name(p) == p.name
BaseURL(p) == p.baseURL
SupportsStreaming(p) == TRUE

\* Authenticate adding the key to the values already there
AuthenticateAdding(p, header, key) ==
    [header |-> SetAppending(header, HeaderName(<<"x", "api", "key">>, "lower"), key),
     log |-> [by |-> "Authenticate", level |-> "debug", msg |-> "added authentication header",
              provider |-> p.name],
     err |-> "nil"]

\* Authenticate writing the key into its log record
AuthenticateLoggingKey(p, header, key) ==
    [header |-> Set(header, HeaderName(<<"x", "api", "key">>, "lower"), key),
     log |-> [by |-> "Authenticate", level |-> "debug", msg |-> "added authentication header",
              provider |-> key],
     err |-> "nil"]

\* Authenticate (AnthropicProvider and ZAIProvider alike): the request's
\* headers afterwards, the record handed to the context logger and the error
\* returned
Authenticate(p, header, key) ==
    [header |-> Set(header, HeaderName(<<"x", "api", "key">>, "lower"), key),
     log |-> [by |-> "Authenticate", level |-> "debug", msg |-> "added authentication header",
              provider |-> p.name],
     err |-> "nil"]

\* the prefix test without the dash
HasAnthropicWord(canonicalKey) ==
    Len(canonicalKey) >= 1 /\ canonicalKey[1] = [w |-> "anthropic", c |-> "title"]

\* len(canonicalKey) >= 10 && canonicalKey[:10] == "Anthropic-"
HasAnthropicPrefix(canonicalKey) ==
    Len(canonicalKey) >= 2 /\ canonicalKey[1] = [w |-> "anthropic", c |-> "title"]

\* the orders in which a range loop may visit the keys of a map
IterationOrders(h) ==
    { o \in [1..Cardinality(DOMAIN h) -> DOMAIN h] : \A i, j \in DOMAIN o : i # j => o[i] # o[j] }

RECURSIVE ForwardLoop(_, _, _)
\* the range loop of ForwardHeaders visiting the keys in the given order
ForwardLoop(originalHeaders, order, headers) ==
    IF order = <<>> THEN headers
    ELSE LET key == Head(order)
             values == originalHeaders[key]
             canonicalKey == CanonicalHeaderKey(key)
             copied == [n \in DOMAIN headers \cup {canonicalKey} |->
                           IF n = canonicalKey
                           THEN (IF n \in DOMAIN headers THEN headers[n] \o values ELSE values)
                           ELSE headers[n]]
         IN ForwardLoop(originalHeaders, Tail(order),
                        IF HasAnthropicPrefix(canonicalKey) THEN copied ELSE headers)

\* ForwardHeaders (AnthropicProvider and ZAIProvider alike) when the range
\* loop visits the keys of originalHeaders in the given order
ForwardHeaders(originalHeaders, order) ==
    Set(ForwardLoop(originalHeaders, order, <<>>), HeaderName(<<"content", "type">>, "title"),
        "application/json")

\* the keys Authenticate is called with
ProviderKeys == {"sk-backend", "sk-other"}
\* the base URLs a provider is configured with
ConfiguredURLs == {"", "https://gateway.example", "://invalid-url"}
\* the most calls made on one provider
MaxCalls == 2

\* a provider after construction, with the header collection h in the three
\* roles below
ProviderState(kind, url, h) ==
    [cfgName |-> "primary", cfgURL |-> url,
     p |-> IF kind = "anthropic" THEN NewAnthropicProvider("primary", url)
                                 ELSE NewZAIProvider("primary", url),
     \* the collection the three roles below start from
     h0 |-> h,
     \* the inbound headers handed to ForwardHeaders
     orig |-> h,
     \* the headers of the outbound request handed to Authenticate
     out |-> Held(h),
     \* the response headers handed to SetSSEHeaders
     w |-> Held(h),
     \* the results of the ForwardHeaders calls, in order
     fwd |-> <<>>,
     \* the calls made, in order, and the key of the last Authenticate
     calls |-> <<>>,
     key |-> "",
     \* out and w before the last call, and the error it returned
     prevOut |-> Held(h), prevW |-> Held(h), err |-> "nil",
     \* the records handed to the context logger
     log |-> <<>>]

InitProvider ==
    /\ PipelineIdle
    /\ sse = "none" /\ srv = "none" /\ multi = "none"
    /\ \E kind \in {"anthropic", "zai"}, url \in ConfiguredURLs, h \in HeaderMaps :
          prov = ProviderState(kind, url, h)

CallForwardHeaders ==
    /\ Len(prov.calls) < MaxCalls
    /\ \E order \in IterationOrders(prov.orig) :
          prov' = [prov EXCEPT !.fwd = Append(@, ForwardHeaders(prov.orig, order)),
                               !.calls = Append(@, "ForwardHeaders"),
                               !.prevOut = prov.out, !.prevW = prov.w]
    /\ UNCHANGED <<pipeVars, sse, srv, multi>>

CallAuthenticate ==
    /\ Len(prov.calls) < MaxCalls
    /\ \E key \in ProviderKeys :
          LET a == Authenticate(prov.p, prov.out, key)
          IN prov' = [prov EXCEPT !.out = a.header, !.err = a.err, !.key = key,
                                  !.log = Append(@, a.log),
                                  !.calls = Append(@, "Authenticate"),
                                  !.prevOut = prov.out, !.prevW = prov.w]
    /\ UNCHANGED <<pipeVars, sse, srv, multi>>

CallSetSSEHeaders ==
    /\ Len(prov.calls) < MaxCalls
    /\ prov' = [prov EXCEPT !.w = SetSSEHeaders(prov.w),
                            !.calls = Append(@, "SetSSEHeaders"),
                            !.prevOut = prov.out, !.prevW = prov.w]
    /\ UNCHANGED <<pipeVars, sse, srv, multi>>

NextProvider == CallForwardHeaders \/ CallAuthenticate \/ CallSetSSEHeaders

SpecProvider == InitProvider /\ [][NextProvider]_vars

LastCall == IF prov.calls = <<>> THEN "none" ELSE prov.calls[Len(prov.calls)]

\* the headers SetSSEHeaders is to set and the value of each
SSEHeaders == {ContentType, CacheControl, XAccelBuffering, Connection}
SSEValue(n) ==
    CASE n = ContentType -> "text/event-stream"
      [] n = CacheControl -> "no-cache, no-transform"
      [] n = XAccelBuffering -> "no"
      [] n = Connection -> "keep-alive"

\* C12: after SetSSEHeaders(h), Content-Type is exactly text/event-stream,
\* Cache-Control exactly "no-cache, no-transform", X-Accel-Buffering exactly no
\* and Connection exactly keep-alive, each a single value in place of whatever
\* h held; every other header of h is as before and none is added; the outcome
\* is the same for every provider; a second call changes nothing.
C12_SSEHeaders ==
    LastCall = "SetSSEHeaders" =>
        /\ DOMAIN prov.w = DOMAIN prov.prevW \cup SSEHeaders
        /\ \A n \in DOMAIN prov.w :
              prov.w[n] = IF n \in SSEHeaders THEN <<SSEValue(n)>> ELSE prov.prevW[n]
        /\ prov.calls = <<"SetSSEHeaders", "SetSSEHeaders">> => prov.w = prov.prevW

\* SetSSEHeaders was called on headers holding two Content-Type values
C12_Witness ==
    /\ prov.calls = <<"SetSSEHeaders">>
    /\ ContentType \in DOMAIN prov.prevW /\ prov.prevW[ContentType] = <<"v2", "v1">>
    /\ HeaderName(<<"user", "agent">>, "title") \in DOMAIN prov.w
    /\ prov.w[ContentType] = <<"text/event-stream">>

\* whether a header name starts with anthropic-, in any letter case
StartsWithAnthropicDash(k) == Len(k) >= 2 /\ k[1].w = "anthropic"

RECURSIVE Joined(_, _)
\* the values h holds under the keys of order, one key after the other
Joined(h, order) == IF order = <<>> THEN <<>> ELSE h[Head(order)] \o Joined(h, Tail(order))

\* the orders of the keys of h that are spellings of the canonical name c
Spellings(h, c) ==
    LET D == { k \in DOMAIN h : CanonicalHeaderKey(k) = c }
    IN { o \in [1..Cardinality(D) -> D] : \A i, j \in DOMAIN o : i # j => o[i] # o[j] }

\* C13: ForwardHeaders returns exactly the headers of its input whose name
\* starts with anthropic- (in any letter case), under their canonical names and
\* with their values, plus Content-Type with the single value
\* application/json; every other input header is dropped, a Content-Type of
\* the client included.
C13_ForwardsAnthropicOnly ==
    \A i \in DOMAIN prov.fwd :
        LET r == prov.fwd[i]
            kept == { k \in DOMAIN prov.orig : StartsWithAnthropicDash(k) }
        IN /\ DOMAIN r = { CanonicalHeaderKey(k) : k \in kept } \cup {ContentType}
           /\ r[ContentType] = <<"application/json">>
           /\ \A c \in DOMAIN r \ {ContentType} :
                 \E o \in Spellings(prov.orig, c) : r[c] = Joined(prov.orig, o)

\* ForwardHeaders was called on a lower-case anthropic-version beside a
\* Content-Type of the client
C13_Witness ==
    /\ prov.fwd # <<>>
    /\ DOMAIN prov.orig = {HeaderName(<<"anthropic", "version">>, "lower"), ContentType}
    /\ prov.orig[ContentType] = <<"v1">>
    /\ prov.fwd[1][AnthropicVersion] = <<"v2", "v1">>
    /\ prov.fwd[1][ContentType] = <<"application/json">>

\* C14: ForwardHeaders is a deterministic pure function: two calls on the same
\* input, one holding the same anthropic- header under keys that differ only in
\* letter case included, return the same names with the same values in the same
\* order, and the input is not modified.
C14_Deterministic ==
    /\ prov.orig = prov.h0
    /\ Len(prov.fwd) = 2 => prov.fwd[1] = prov.fwd[2]

\* C15: after Authenticate(req, key) the request holds exactly one x-api-key
\* value, key, in place of any it held before; no other header is changed,
\* added or removed; no error is returned; a call with the key the request
\* already holds changes nothing.
C15_Authenticate ==
    LastCall = "Authenticate" =>
        /\ prov.out[XApiKey] = <<prov.key>>
        /\ DOMAIN prov.out = DOMAIN prov.prevOut \cup {XApiKey}
        /\ \A n \in DOMAIN prov.out \ {XApiKey} : prov.out[n] = prov.prevOut[n]
        /\ prov.err = "nil"
        /\ prov.orig = prov.h0 /\ prov.w = prov.prevW
        /\ (prov.calls = <<"Authenticate", "Authenticate">> /\ prov.prevOut[XApiKey] = <<prov.key>>)
              => prov.out = prov.prevOut

\* Authenticate replaced the two x-api-key values the request carried
C15_Witness ==
    /\ prov.calls = <<"Authenticate">>
    /\ XApiKey \in DOMAIN prov.prevOut /\ prov.prevOut[XApiKey] = <<"v2", "v1">>
    /\ prov.out[XApiKey] = <<"sk-backend">>

\* a second Authenticate with the same key
C15_WitnessTwice ==
    /\ prov.calls = <<"Authenticate", "Authenticate">>
    /\ prov.prevOut[XApiKey] = <<prov.key>>

\* C16: a provider built with an empty base URL reports its provider's default
\* (https://api.anthropic.com for Anthropic, https://api.z.ai/api/anthropic
\* for Z.AI), one built with a non-empty base URL reports that URL verbatim;
\* BaseURL(), Name() and SupportsStreaming() return the same values whatever
\* calls of Authenticate and ForwardHeaders were made.
C16_ProviderConstant ==
    /\ BaseURL(prov.p) = IF prov.cfgURL # "" THEN prov.cfgURL
                         ELSE IF prov.p.kind = "anthropic" THEN "https://api.anthropic.com"
                         ELSE "https://api.z.ai/api/anthropic"
    /\ Name(prov.p) = prov.cfgName
    /\ SupportsStreaming(prov.p)

\* an Anthropic provider built without a base URL, after calls of Authenticate
\* and ForwardHeaders
C16_Witness ==
    /\ prov.calls = <<"Authenticate", "ForwardHeaders">>
    /\ prov.cfgURL = "" /\ prov.p.kind = "anthropic"
    /\ BaseURL(prov.p) = "https://api.anthropic.com"

\* ---------------------------------------------------------------------------
\* Start-up (runServe)
\* ---------------------------------------------------------------------------

\* the provider entries of a configuration file
ProviderConfigs ==
    [Enabled : BOOLEAN, Type : {"anthropic", "zai"}, BaseURL : ConfiguredURLs,
     Keys : {<<>>, <<"sk-backend">>}]

\* the most provider entries in a configuration
MaxProviders == 2

Configs == UNION { [1..n -> ProviderConfigs] : n \in 0..MaxProviders }

\* var provider providers.Provider before the loop assigns it
NilProvider == [kind |-> "nil", name |-> "", baseURL |-> ""]

RECURSIVE FirstEnabled(_)
\* the provider loop of runServe taking the first enabled entry of any type
FirstEnabled(ps) ==
    IF ps = <<>> THEN [provider |-> NilProvider, providerKey |-> ""]
    ELSE LET p == Head(ps)
         IN IF p.Enabled
            THEN [provider |-> NewAnthropicProvider("primary", p.BaseURL),
                  providerKey |-> IF Len(p.Keys) > 0 THEN p.Keys[1] ELSE ""]
            ELSE FirstEnabled(Tail(ps))

RECURSIVE FirstAnthropic(_)
\* the provider loop of runServe: the provider built from the first enabled
\* entry of type anthropic and its first key, nil when there is none
FirstAnthropic(ps) ==
    IF ps = <<>> THEN [provider |-> NilProvider, providerKey |-> ""]
    ELSE LET p == Head(ps)
         IN IF p.Enabled /\ p.Type = "anthropic"
            THEN [provider |-> NewAnthropicProvider("primary", p.BaseURL),
                  providerKey |-> IF Len(p.Keys) > 0 THEN p.Keys[1] ELSE ""]
            ELSE FirstAnthropic(Tail(ps))

\* url.Parse on a provider's base URL: "://invalid-url" has no scheme before
\* its colon
ParsesAsURL(u) == u # "://invalid-url"

\* NewHandler(provider, providerKey): an error for a base URL that does not
\* parse
NewHandler(provider) ==
    IF ParsesAsURL(BaseURL(provider))
    THEN [handler |-> "handler", err |-> "nil"]
    ELSE [handler |-> "nil", err |-> "invalid provider base URL"]

\* what SetupRoutes returns: no handler and the wrapped error when NewHandler
\* fails, the routed handler otherwise
SetupRoutesResult(provider) ==
    LET h == NewHandler(provider)
    IN IF h.err # "nil"
       THEN [handler |-> "nil", err |-> "failed to create handler"]
       ELSE [handler |-> "mux", err |-> "nil"]

InitServe ==
    /\ PipelineIdle
    /\ sse = "none" /\ prov = "none" /\ multi = "none"
    /\ \E loads \in BOOLEAN, cfg \in Configs :
          srv = [pc |-> "load", loads |-> loads, Providers |-> cfg,
                 provider |-> NilProvider, providerKey |-> "", handler |-> "nil",
                 setupErr |-> "nil", err |-> "nil",
                 listening |-> FALSE, listened |-> FALSE]

\* cfg, err := config.Load(configPath)
LoadConfig ==
    /\ srv.pc = "load"
    /\ srv' = IF srv.loads THEN [srv EXCEPT !.pc = "find"]
              ELSE [srv EXCEPT !.pc = "returned", !.err = "failed to load config"]
    /\ UNCHANGED <<pipeVars, sse, prov, multi>>

\* the provider loop and the provider == nil test
FindProvider ==
    /\ srv.pc = "find"
    /\ LET f == FirstAnthropic(srv.Providers)
       IN srv' = IF f.provider = NilProvider
                 THEN [srv EXCEPT !.pc = "returned", !.err = "no enabled anthropic provider in config"]
                 ELSE [srv EXCEPT !.pc = "routes", !.provider = f.provider,
                                  !.providerKey = f.providerKey]
    /\ UNCHANGED <<pipeVars, sse, prov, multi>>

\* handler, err := proxy.SetupRoutes(cfg, provider, providerKey)
CallSetupRoutes ==
    /\ srv.pc = "routes"
    /\ LET r == SetupRoutesResult(srv.provider)
       IN srv' = IF r.err # "nil"
                 THEN [srv EXCEPT !.pc = "returned", !.err = r.err, !.setupErr = r.err,
                                  !.handler = r.handler]
                 ELSE [srv EXCEPT !.pc = "serve", !.handler = r.handler]
    /\ UNCHANGED <<pipeVars, sse, prov, multi>>

\* server.ListenAndServe(): the listener opens, or fails to (address in use)
ListenAndServe ==
    /\ srv.pc = "serve"
    /\ \/ srv' = [srv EXCEPT !.pc = "serving", !.listening = TRUE, !.listened = TRUE]
       \/ srv' = [srv EXCEPT !.pc = "returned", !.err = "server error"]
    /\ UNCHANGED <<pipeVars, sse, prov, multi>>

\* SIGINT or SIGTERM: server.Shutdown, ListenAndServe returns ErrServerClosed
Shutdown ==
    /\ srv.pc = "serving"
    /\ srv' = [srv EXCEPT !.pc = "returned", !.listening = FALSE]
    /\ UNCHANGED <<pipeVars, sse, prov, multi>>

NextServe == LoadConfig \/ FindProvider \/ CallSetupRoutes \/ ListenAndServe \/ Shutdown

SpecServe == InitServe /\ [][NextServe]_vars

\* the enabled anthropic entries of the configuration
EnabledAnthropic == { i \in DOMAIN srv.Providers :
                        srv.Providers[i].Enabled /\ srv.Providers[i].Type = "anthropic" }
\* the entry runServe is to use: the first of them
Chosen == srv.Providers[CHOOSE i \in EnabledAnthropic : \A j \in EnabledAnthropic : i <= j]

\* C17: a configuration error is fatal before serving.  When the
\* configuration fails to load, when it holds no enabled provider of type
\* anthropic, or when SetupRoutes fails (it returns an error and no handler
\* for a provider whose base URL is invalid), runServe returns that error and
\* the server never listens.
C17_FatalBeforeServing ==
    /\ ~srv.loads =>
          /\ ~srv.listened
          /\ srv.pc = "returned" => srv.err = "failed to load config"
    /\ (srv.loads /\ EnabledAnthropic = {}) =>
          /\ ~srv.listened
          /\ srv.pc = "returned" => srv.err = "no enabled anthropic provider in config"
    /\ (srv.loads /\ EnabledAnthropic # {} /\ Chosen.BaseURL = "://invalid-url") =>
          /\ ~srv.listened
          /\ srv.pc = "returned" =>
                srv.err = "failed to create handler" /\ srv.setupErr = srv.err /\ srv.handler = "nil"
    /\ srv.err # "nil" => srv.pc = "returned" /\ ~srv.listening
    /\ srv.pc \in {"load", "find", "routes"} => ~srv.listened

\* runServe returned the error of SetupRoutes for a configuration whose first
\* entry is a Z.AI provider and whose second has an invalid base URL
C17_Witness ==
    /\ srv.pc = "returned" /\ srv.err = "failed to create handler"
    /\ Len(srv.Providers) = 2 /\ srv.Providers[1].Type = "zai" /\ srv.Providers[1].Enabled
    /\ srv.Providers[2].BaseURL = "://invalid-url"
    /\ ~srv.listened

\* runServe returned because no provider is enabled
C17_WitnessNoProvider ==
    /\ srv.pc = "returned" /\ srv.err = "no enabled anthropic provider in config"
    /\ Len(srv.Providers) = 2 /\ srv.Providers[1].Type = "anthropic"

\* ---------------------------------------------------------------------------
\* Requests in flight at the same time
\* ---------------------------------------------------------------------------

\* the requests sent while others are in flight: a POST to the messages route
\* or a GET of the health route, without a key, with the key KeyA or with
\* KeyA's first bit inverted, with or without an identifier of its own
ConcRoutes == { <<"POST", MessagesPath>>, <<"GET", HealthPath>> }
ConcKeyHeaders == { <<>>, <<KeyA>>, <<FlipBit(KeyA, 1)>> }
ConcIDHeaders == { <<>>, <<Ramp(3)>> }

\* a request arrives on a free slot, whatever the other slots are doing
ArriveConc(s) ==
    /\ req[s].pc = "idle"
    /\ served < MaxRequests
    /\ \E mp \in ConcRoutes, k \in ConcKeyHeaders, id \in ConcIDHeaders :
          req' = [req EXCEPT ![s] = [IdleReq EXCEPT !.pc = "mux", !.method = mp[1],
                                         !.path = mp[2], !.hdrKey = k, !.hdrID = id]]
    /\ served' = served + 1
    /\ UNCHANGED <<aux, apiKey, messagesHandler, expectedHash, issued>>

NextConc ==
    \E s \in Slots :
        \/ ArriveConc(s)
        \/ Dispatch(s)
        \/ HealthHandler(s)
        \/ RequestIDMiddleware(s)
        \/ LoggingMiddlewareEnter(s)
        \/ AuthMiddleware(s)
        \/ Handler(s)
        \/ LoggingMiddlewareExit(s)
        \/ Recycle(s)

SpecConc == Init /\ [][NextConc]_vars

\* C18: the 401 response does not tell a missing credential from an invalid
\* one: of two requests to the auth-protected route that Auth rejected, one
\* without an x-api-key header and one with a wrong x-api-key value, the
\* responses have the same status, the same error kind and the same message.
C18_RejectionsAlike ==
    \A s, t \in Slots :
        (/\ RejectedByAuth(req[s]) /\ RejectedByAuth(req[t])
         /\ req[s].hdrKey = <<>> /\ req[t].hdrKey # <<>>)
        => /\ req[s].status = req[t].status
           /\ req[s].errKind = req[t].errKind
           /\ req[s].errMsg = req[t].errMsg

\* ---------------------------------------------------------------------------
\* MultiAuthMiddleware and the authenticator chain
\* ---------------------------------------------------------------------------

\* the Authorization header values sent: a bearer token, right or wrong, and a
\* value of another scheme
AuthorizationHeaders ==
    { <<>>, << [scheme |-> "Bearer", token |-> KeyB] >>,
      << [scheme |-> "Bearer", token |-> FlipBit(KeyB, 1)] >>,
      << [scheme |-> "Basic", token |-> KeyB] >> }

\* config.AuthConfig: bearer allowed or not (with its secret), API key or none
AuthConfigs ==
    { [AllowBearer |-> b, BearerSecret |-> IF b THEN KeyB ELSE <<>>, APIKey |-> k] :
        b \in BOOLEAN, k \in {<<>>, KeyA} }

\* auth.NewBearerAuthenticator, auth.NewAPIKeyAuthenticator: the scheme and
\* the digest of the expected secret
NewBearerAuthenticator(secret) == [Type |-> "bearer", expected |-> Sum256(secret)]
NewAPIKeyAuthenticator(key) == [Type |-> "api_key", expected |-> Sum256(key)]

\* the chain with the API key authenticator first
AuthenticatorsKeyFirst(authConfig) ==
    (IF authConfig.APIKey # <<>> THEN <<NewAPIKeyAuthenticator(authConfig.APIKey)>> ELSE <<>>)
    \o (IF authConfig.AllowBearer THEN <<NewBearerAuthenticator(authConfig.BearerSecret)>> ELSE <<>>)

\* the authenticators MultiAuthMiddleware builds from its configuration
Authenticators(authConfig) ==
    (IF authConfig.AllowBearer THEN <<NewBearerAuthenticator(authConfig.BearerSecret)>> ELSE <<>>)
    \o (IF authConfig.APIKey # <<>> THEN <<NewAPIKeyAuthenticator(authConfig.APIKey)>> ELSE <<>>)

\* Authenticator.Validate: a missing field, a value that is malformed or does
\* not match, or success
Validate(a, r) ==
    LET fail(reason) == [Valid |-> FALSE, Type |-> a.Type, Error |-> reason]
        ok == [Valid |-> TRUE, Type |-> a.Type, Error |-> ""]
    IN IF a.Type = "api_key"
       THEN IF Get(r.hdrKey) = <<>> THEN fail("missing x-api-key")
            ELSE IF ConstantTimeCompare(Sum256(Get(r.hdrKey)), a.expected) # 1
            THEN fail("invalid x-api-key")
            ELSE ok
       ELSE IF r.hdrAuth = <<>> THEN fail("missing authorization")
            ELSE IF r.hdrAuth[1].scheme # "Bearer" THEN fail("invalid authorization")
            ELSE IF ConstantTimeCompare(Sum256(r.hdrAuth[1].token), a.expected) # 1
            THEN fail("invalid authorization")
            ELSE ok

RECURSIVE ChainValidate(_, _, _, _)
\* ChainAuthenticator.Validate: the authenticators in order, the first success
\* or, when all fail, the failure of the last one tried; success when there is
\* none.  attempts lists the authenticators consulted.
ChainValidate(chain, r, attempts, last) ==
    IF chain = <<>> THEN [result |-> last, attempts |-> attempts]
    ELSE LET res == Validate(Head(chain), r)
             tried == Append(attempts, Head(chain).Type)
         IN IF res.Valid THEN [result |-> res, attempts |-> tried]
            ELSE ChainValidate(Tail(chain), r, tried, res)

\* the chain with MultiAuthMiddleware's wrapper whatever the configuration
MultiRoutesAlwaysWrapped(authenticators) ==
    <<"RequestID", "Logging", "MultiAuth", "Handler">>

\* the chain of the messages route with MultiAuthMiddleware in Auth's place:
\* without authenticators MultiAuthMiddleware returns the wrapped handler itself
MultiRoutes(authenticators) ==
    <<"RequestID", "Logging">>
    \o (IF authenticators = <<>> THEN <<>> ELSE <<"MultiAuth">>)
    \o <<"Handler">>

\* a record of MultiAuthMiddleware through the context's logger
EmitAuth(r, rec) ==
    IF r.ctxLogger
    THEN [r EXCEPT !.log = Append(@, [by |-> "MultiAuth", level |-> rec.level, msg |-> rec.msg,
                                      req_id |-> <<>>, status |-> 0,
                                      request_id |-> r.ctxID,
                                      auth_type |-> rec.auth_type, error |-> rec.error])]
    ELSE r

MultiAuthMiddleware(s) ==
    LET v == ChainValidate(multi.authenticators, req[s], <<>>,
                           [Valid |-> TRUE, Type |-> "none", Error |-> ""])
        result == v.result
        r == [req[s] EXCEPT !.attempts = v.attempts, !.authType = result.Type,
                            !.trace = Append(@, "MultiAuth")]
    IN  /\ r.pc = "chain" /\ messagesHandler[r.pos] = "MultiAuth"
        /\ req' = [req EXCEPT ![s] =
              IF ~result.Valid
              THEN Return([WriteError(
                              EmitAuth(r, [level |-> "warn", msg |-> "authentication failed",
                                           auth_type |-> result.Type, error |-> result.Error]),
                              StatusUnauthorized, "authentication_error", result.Error)
                             EXCEPT !.by = "MultiAuth"])
              ELSE [EmitAuth(r, [level |-> "debug", msg |-> "authentication succeeded",
                                 auth_type |-> result.Type, error |-> ""])
                      EXCEPT !.pos = @ + 1]]
        /\ UNCHANGED <<aux, apiKey, messagesHandler, expectedHash, served, issued>>

\* the gateway with AuthMiddleware on the messages route, or with
\* MultiAuthMiddleware in its place under every configuration; beside it the
\* provider the terminal handler calls Authenticate on
InitMulti ==
    /\ \/ /\ apiKey = KeyA
          /\ messagesHandler = SetupRoutes(apiKey)
          /\ expectedHash = Sum256(apiKey)
          /\ multi = [authConfig |-> [AllowBearer |-> FALSE, BearerSecret |-> <<>>,
                                      APIKey |-> <<>>],
                      authenticators |-> <<>>]
       \/ /\ apiKey = <<>>
          /\ expectedHash = <<>>
          /\ \E c \in AuthConfigs :
                /\ multi = [authConfig |-> c, authenticators |-> Authenticators(c)]
                /\ messagesHandler = MultiRoutes(Authenticators(c))
    /\ req = [s \in Slots |-> IdleReq]
    /\ served = 0
    /\ issued = <<>>
    /\ prov = ProviderState("anthropic", "", <<>>)
    /\ sse = "none" /\ srv = "none"

\* a POST to the messages route with any of the x-api-key, Authorization and
\* X-Request-ID headers of the model, when no request is in flight
ArriveMulti(s) ==
    /\ \A t \in Slots : req[t].pc = "idle"
    /\ served < MaxRequests
    /\ \E k \in ConcKeyHeaders, a \in AuthorizationHeaders, id \in ConcIDHeaders :
          req' = [req EXCEPT ![s] = [IdleReq EXCEPT !.pc = "mux", !.method = "POST",
                                         !.path = MessagesPath, !.hdrKey = k,
                                         !.hdrAuth = a, !.hdrID = id]]
    /\ served' = served + 1
    /\ UNCHANGED <<aux, apiKey, messagesHandler, expectedHash, issued>>

NextMulti ==
    \/ \E s \in Slots :
        \/ ArriveMulti(s)
        \/ Dispatch(s)
        \/ RequestIDMiddleware(s)
        \/ LoggingMiddlewareEnter(s)
        \/ AuthMiddleware(s)
        \/ MultiAuthMiddleware(s)
        \/ Handler(s)
        \/ LoggingMiddlewareExit(s)
        \/ Recycle(s)
    \/ CallAuthenticate

SpecMulti == InitMulti /\ [][NextMulti]_vars

\* the credentials of the request r and of the configuration: the values of
\* its x-api-key header, the tokens of its Authorization header, the expected
\* key of AuthMiddleware and the secrets of MultiAuthMiddleware's configuration
Credentials(r) ==
    ({ r.hdrKey[i] : i \in DOMAIN r.hdrKey }
        \cup { r.hdrAuth[i].token : i \in DOMAIN r.hdrAuth }
        \cup { apiKey, multi.authConfig.APIKey, multi.authConfig.BearerSecret }) \ {<<>>}

\* the fixed texts of the log records: messages, scheme kinds, failure reasons
LogMessages ==
    { "start", "completion", "authentication succeeded", "authentication failed",
      "authentication failed: missing x-api-key header",
      "authentication failed: invalid x-api-key", "added authentication header" }
SchemeKinds == {"bearer", "api_key", "none"}
FailureReasons ==
    { "", "missing x-api-key", "invalid x-api-key", "missing authorization",
      "invalid authorization" }

\* C19: no log record of AuthMiddleware, MultiAuthMiddleware, LoggingMiddleware
\* or Provider.Authenticate, on success or on failure, holds the value of an
\* inbound credential or of the backend key: a record's message, scheme kind
\* and failure reason are fixed texts, its identifiers are the request's
\* identifier and none of the credentials, and Authenticate's record names the
\* provider and not the key.
C19_NoSecretInLogs ==
    /\ \A s \in Slots : \A i \in DOMAIN req[s].log :
          LET rec == req[s].log[i]
          IN /\ rec.by \in {"Auth", "MultiAuth", "Logging"}
             /\ rec.msg \in LogMessages
             /\ rec.level \in {"debug", "info", "warn", "error"}
             /\ rec.req_id \notin Credentials(req[s])
             /\ rec.request_id \notin Credentials(req[s])
             /\ rec.request_id = req[s].ctxID
             /\ rec.by = "MultiAuth" =>
                   rec.auth_type \in SchemeKinds /\ rec.error \in FailureReasons
    /\ \A i \in DOMAIN prov.log :
          /\ prov.log[i].msg \in LogMessages
          /\ prov.log[i].provider = Name(prov.p)
          /\ prov.log[i].provider \notin ProviderKeys

\* records of a rejection by MultiAuthMiddleware of a request carrying a wrong
\* key and a wrong bearer token, and of Authenticate
C19_Witness ==
    /\ \E s \in Slots :
          /\ req[s].pc = "done"
          /\ req[s].hdrKey = <<FlipBit(KeyA, 1)>>
          /\ req[s].hdrAuth # <<>> /\ req[s].hdrAuth[1].scheme = "Bearer"
          /\ \E i \in DOMAIN req[s].log :
                req[s].log[i].by = "MultiAuth" /\ req[s].log[i].level = "warn"
          /\ \E i \in DOMAIN req[s].log :
                req[s].log[i].by = "Logging" /\ req[s].log[i].msg = "completion"
    /\ prov.log # <<>>

\* records of AuthMiddleware accepting a request
C19_WitnessAuth ==
    \E s \in Slots : \E i \in DOMAIN req[s].log :
        req[s].log[i].by = "Auth" /\ req[s].log[i].level = "debug" /\ req[s].hdrKey = <<KeyA>>

\* both methods are configured
BothConfigured == multi.authConfig.AllowBearer /\ multi.authConfig.APIKey # <<>>

\* the request carries the configured static key and no Authorization header
OnlyValidKey(r) ==
    /\ r.pc # "idle" /\ r.hdrAuth = <<>>
    /\ r.hdrKey # <<>> /\ Get(r.hdrKey) = multi.authConfig.APIKey

\* C20: with bearer and static-key authentication both configured,
\* MultiAuthMiddleware's chain is [bearer, static-key]; the authenticators are
\* consulted in that order; a request carrying only a valid static key is
\* accepted by the static-key authenticator after the bearer authenticator was
\* tried, is not answered 401 by the middleware, and the wrapped handler is
\* called with it.
C20_ChainOrder ==
    BothConfigured =>
        /\ [i \in DOMAIN multi.authenticators |-> multi.authenticators[i].Type]
              = <<"bearer", "api_key">>
        /\ \A s \in Slots :
              LET r == req[s]
              IN /\ r.attempts \in {<<>>, <<"bearer">>, <<"bearer", "api_key">>}
                 /\ (OnlyValidKey(r) /\ r.authType # "") =>
                       /\ r.attempts = <<"bearer", "api_key">>
                       /\ r.authType = "api_key"
                       /\ r.by # "MultiAuth"
                       /\ r.pc = "chain" => messagesHandler[r.pos] = "Handler"
                       /\ r.pc \in {"logexit", "done"} => r.handlerCalls = 1

\* such a request was served by the handler
C20_Witness ==
    /\ BothConfigured
    /\ \E s \in Slots :
          /\ OnlyValidKey(req[s]) /\ req[s].pc = "done"
          /\ req[s].attempts = <<"bearer", "api_key">>
          /\ req[s].handlerCalls = 1 /\ req[s].by = "Handler"

\* MultiAuthMiddleware is on the messages route (AuthMiddleware is not) and its
\* configuration enables no method
NoMethodEnabled ==
    /\ apiKey = <<>>
    /\ ~multi.authConfig.AllowBearer /\ multi.authConfig.APIKey = <<>>

\* C21: when the configuration enables no method (bearer not allowed, API key
\* empty), MultiAuthMiddleware accepts every request whatever headers it
\* carries: the wrapped handler is called for every request, no authenticator
\* is consulted, the middleware writes no 401 and no authentication log record
\* is emitted.
C21_NoMethodPassThrough ==
    NoMethodEnabled =>
        /\ multi.authenticators = <<>>
        /\ \A s \in Slots :
              LET r == req[s]
              IN /\ r.attempts = <<>> /\ r.authType = ""
                 /\ r.by \notin {"MultiAuth", "Auth"}
                 /\ r.status = StatusUnauthorized => r.by = "Handler"
                 /\ \A i \in DOMAIN r.log : r.log[i].by = "Logging"
                 /\ \A i \in DOMAIN r.trace : r.trace[i] \notin {"MultiAuth", "Auth"}
                 /\ r.pc \in {"logexit", "done"} => r.handlerCalls = 1
                 /\ (r.pc = "chain" /\ r.pos = 3) => messagesHandler[r.pos] = "Handler"

\* a request carrying a wrong key and a wrong bearer token was served by the
\* handler under the configuration without methods
C21_Witness ==
    /\ NoMethodEnabled
    /\ \E s \in Slots :
          /\ req[s].pc = "done" /\ req[s].handlerCalls = 1 /\ req[s].status = StatusOK
          /\ req[s].hdrKey = <<FlipBit(KeyA, 1)>>
          /\ req[s].hdrAuth = << [scheme |-> "Bearer", token |-> FlipBit(KeyB, 1)] >>
          /\ Len(req[s].log) = 2

\* the positions in r's log of the records LoggingMiddleware emitted with the
\* given message
LoggingRecordsOf(r, msg) ==
    { i \in DOMAIN r.log : r.log[i].by = "Logging" /\ r.log[i].msg = msg }

\* the positions in r's trace of the given step
StepsOf(r, step) == { i \in DOMAIN r.trace : r.trace[i] = step }

\* C22: authentication failures are logged with the request identifier: for
\* every POST /v1/messages request that Auth rejected, LoggingMiddleware was
\* entered before Auth and emitted its start record, and once the response is
\* complete it has emitted exactly one completion record, after the 401, with
\* status 401 at warning level; both records carry the request's identifier.
C22_RejectionsLogged ==
    \A s \in Slots :
        LET r == req[s]
        IN (OnMessages(r) /\ RejectedByAuth(r)) =>
              /\ \E i \in StepsOf(r, "Logging") : \E j \in StepsOf(r, "Auth") : i < j
              /\ Cardinality(LoggingRecordsOf(r, "start")) = 1
              /\ \A i \in LoggingRecordsOf(r, "start") :
                    /\ r.log[i].request_id = r.ctxID /\ r.ctxID # <<>>
                    /\ r.log[i].req_id = ShortID(r.ctxID)
              /\ r.pc = "done" =>
                    /\ Cardinality(LoggingRecordsOf(r, "completion")) = 1
                    /\ \A i \in LoggingRecordsOf(r, "completion") :
                          /\ i = Len(r.log)
                          /\ r.log[i].status = StatusUnauthorized
                          /\ r.log[i].level = "warn"
                          /\ r.log[i].request_id = r.ctxID
                          /\ r.log[i].req_id = ShortID(r.ctxID)

\* C23: the status in LoggingMiddleware's completion record is the status of
\* the response the client receives, whatever the wrapped handler does: no
\* WriteHeader call (200), one WriteHeader call, or several (the first of
\* which fixes what the client receives).
C23_LoggedStatusIsSentStatus ==
    \A s \in Slots :
        LET r == req[s]
        IN r.pc = "done" =>
              \A i \in LoggingRecordsOf(r, "completion") : r.log[i].status = r.status

\* the state every request reads: the configured key, its digest in
\* AuthMiddleware's closure, and the handler chain of the messages route
SharedState == <<apiKey, expectedHash, messagesHandler>>

\* a step leaves SharedState alone and changes the request of one slot at most
StepIsLocal ==
    /\ SharedState' = SharedState
    /\ \A s, t \in Slots : (s # t /\ req'[s] # req[s]) => req'[t] = req[t]

\* what the pipeline yields for the request r processed alone, as far as r has
\* come: the decision of Auth, who answers with which status, and the
\* X-Request-ID response header
OutcomeAsAlone(r) ==
    /\ StepsOf(r, "Auth") # {} =>
          /\ apiKey # <<>>
          /\ RejectedByAuth(r) <=> Get(r.hdrKey) # apiKey
    /\ r.by = "Auth" => r.status = StatusUnauthorized /\ r.handlerCalls = 0
    /\ (OnMessages(r) /\ r.pc = "done") =>
          IF apiKey # <<>> /\ Get(r.hdrKey) # apiKey
          THEN RejectedByAuth(r)
          ELSE r.by = "Handler" /\ r.handlerCalls = 1
    /\ (r.method = "GET" /\ r.path = HealthPath /\ r.pc = "done") =>
          r.status = StatusOK /\ r.handlerCalls = 0
    /\ IF StepsOf(r, "RequestID") = {} THEN r.respID = <<>>
       ELSE IF r.hdrID # <<>> THEN r.respID = <<Get(r.hdrID)>> /\ r.ctxID = Get(r.hdrID)
       ELSE r.respID = <<r.ctxID>> /\ Len(r.ctxID) = GenIDLen

\* two requests never hold the same generated identifier
ContextsApart ==
    \A s, t \in Slots :
        (s # t /\ StepsOf(req[s], "RequestID") # {} /\ StepsOf(req[t], "RequestID") # {}
         /\ req[s].hdrID = <<>> /\ req[t].hdrID = <<>>)
        => req[s].ctxID # req[t].ctxID

\* C24: for any interleaving of concurrently processed requests, no step of
\* one request writes state another request reads (the expected key and its
\* digest, the route's handler chain) or another request's own state, so each
\* request's auth decision, status and X-Request-ID are what they are when the
\* request is processed alone, and generated identifiers are not shared.
C24_RequestsIndependent ==
    /\ [][StepIsLocal]_vars
    /\ [](\A s \in Slots : OutcomeAsAlone(req[s]))
    /\ []ContextsApart

\* two requests in flight at once: one rejected by Auth and waiting for
\* Logging's exit while the other, accepted, is about to reach the handler
C24_Witness ==
    \E s, t \in Slots :
        /\ s # t
        /\ req[t].pc = "logexit" /\ RejectedByAuth(req[t]) /\ req[t].hdrID = <<>>
        /\ req[s].pc = "chain" /\ messagesHandler[req[s].pos] = "Handler"
        /\ StepsOf(req[s], "Auth") # {} /\ req[s].hdrID = <<>>
        /\ req[s].ctxID # req[t].ctxID

====
